---- MODULE Spec2Model ----
(***************************************************************************)
(* BaseSignalGP (source/SignalGPBase.h): thread pool, thread state index,  *)
(* priority admission (ActivatePendingThreads), event queue and the        *)
(* SingleProcess driver.                                                   *)
(*                                                                         *)
(* Thread ids are 0-based as in the source; thread id i is threads[i+1].   *)
(* Priorities are doubles in the source and are only ever compared; they   *)
(* are the integers 1..MaxPriority here, 1 standing for the default 1.0.   *)
(* The execution state of a thread is opaque to the host and is left out.  *)
(*                                                                         *)
(* max_active_threads and max_thread_space are fields of the host; the     *)
(* initial state draws them from small ranges.                             *)
(*                                                                         *)
(* The body of SingleProcess after "is_executing = true" is a stub in the  *)
(* source ("todo"): the execution loop and the end-of-tick reaping are     *)
(* modelled from spec.md section 4.5 (ExecSnapshot, ExecVisit, StepReturn, *)
(* Reap).  Two lines of ActivatePendingThreads do not compile as written   *)
(* (213: the priority of an id; 238: tuple.get<1>()); they are modelled as *)
(* the surrounding code and comments state them: the maximum priority over *)
(* the pending queue, and the id of the heap's top tuple.                  *)
(***************************************************************************)
EXTENDS Integers, Sequences, FiniteSets, TLC

\* ---- bounds of the model ----
MaxActive == 2      \* max_active_threads is drawn from 1..MaxActive
MaxSpace == 3       \* max_thread_space from max_active_threads..MaxSpace
MaxPriority == 2    \* priorities are 1..MaxPriority
MaxTicks == 2       \* SingleProcess calls
MaxCalls == 4       \* calls of SpawnThreadWithID, KillThread, QueueEvent
                    \* and BaseResetState made on the host, in total

NoThread == -1      \* (size_t)-1
None == -2          \* std::nullopt
NotCalled == None - 1   \* the last step was not a SpawnThreadWithID call

VARIABLES
  max_active_threads, \* size_t, 64 by default
  max_thread_space,   \* size_t, 512 by default
  event_queue,        \* std::deque<event_t>
  threads,            \* emp::vector<thread_t>: [priority, run_state]
  thread_exec_order,  \* emp::vector<size_t>
  active_threads,     \* std::unordered_set<size_t>
  unused_threads,     \* emp::vector<size_t>, back = top of the stack
  pending_threads,    \* std::deque<size_t>
  cur_thread_id,
  is_executing,
  pc,                 \* position of the driver: idle, drain, handler, exec, step
  exec_i, exec_n,     \* loop index and frozen snapshot of the execution loop
  tick,               \* number of SingleProcess calls begun
  calls,              \* calls made on the host: in total, of QueueEvent, and
                      \* (fresh) of SpawnThreadWithID since the constructor or
                      \* the last BaseResetState if nothing else has run
                      \* since, else -1
  ret,                \* what SpawnThreadWithID returned, if it was the last step
  adm,                \* the decisions of the admission round that has just
                      \* returned, in order
  rejected,           \* ids this tick's admission round marked DEAD unadmitted
  visits,             \* per entry of the execution order visited by this
                      \* tick's execution loop: the id stepped, or NoThread
                      \* for an entry that was skipped
  born,               \* per thread id: the phase of its latest spawn, and
                      \* whether that was during the tick now in progress
  last_handled        \* serial of the last event whose handler returned

vars == <<max_active_threads, max_thread_space, event_queue, threads,
          thread_exec_order, active_threads, unused_threads, pending_threads,
          cur_thread_id, is_executing, pc, exec_i, exec_n, tick, calls, ret,
          adm, rejected, visits, born, last_handled>>

config == <<max_active_threads, max_thread_space>>

\* ---- sequences ----
Last_Bottom(s) == s[1]

Last(s) == s[Len(s)]
Front(s) == SubSeq(s, 1, Len(s) - 1)
Range(s) == {s[k] : k \in 1..Len(s)}
NoDup(s) == \A a, b \in 1..Len(s) : s[a] = s[b] => a = b

Priorities == 1..MaxPriority
Ids == 0..(Len(threads) - 1)

\* ---- Thread ----
NewThread == [priority |-> 1, run_state |-> "DEAD"]
ThreadReset(t) == [t EXCEPT !.run_state = "DEAD", !.priority = 1]

\* ---- constructor ----
InitialPoolSize_Twice(ma, sp) == 2 * ma

InitialPoolSize(ma, sp) == IF 2 * ma < sp THEN 2 * ma ELSE sp

AllUnused_Ascending(n) == [i \in 1..n |-> i - 1]

AllUnused(n) == [i \in 1..n |-> (n - 1) - (i - 1)]

NotBorn == [ph |-> "none", now |-> FALSE]

Init ==
  /\ max_active_threads \in 1..MaxActive
  /\ max_thread_space \in max_active_threads..MaxSpace
  /\ event_queue = <<>>
  /\ threads = [i \in 1..InitialPoolSize(max_active_threads,
                                         max_thread_space) |-> NewThread]
  /\ thread_exec_order = <<>>
  /\ active_threads = {}
  /\ unused_threads = AllUnused(InitialPoolSize(max_active_threads,
                                                max_thread_space))
  /\ pending_threads = <<>>
  /\ cur_thread_id = NoThread
  /\ is_executing = FALSE
  /\ pc = "idle"
  /\ exec_i = 0
  /\ exec_n = 0
  /\ tick = 0
  /\ calls = [total |-> 0, enqueue |-> 0, fresh |-> 0]
  /\ ret = NotCalled
  /\ adm = <<>>
  /\ rejected = {}
  /\ visits = <<>>
  /\ born = [i \in 1..InitialPoolSize(max_active_threads,
                                      max_thread_space) |-> NotBorn]
  /\ last_handled = 0

\* The host's thread index as one value, for the helpers that update it.
Host == [threads |-> threads, active |-> active_threads,
         order |-> thread_exec_order, pending |-> pending_threads,
         log |-> <<>>]

\* Thread::GetPriority
Prio_Inverted(s, id) == (MaxPriority + 1) - s.threads[id + 1].priority

Prio(s, id) == s.threads[id + 1].priority

\* ---- ActivateThread / KillThread ----
ActivateThread_Front(s, id) ==
  [s EXCEPT !.active = @ \cup {id},
            !.order = <<id>> \o @,
            !.threads[id + 1].run_state = "RUNNING"]

ActivateThread(s, id) ==
  [s EXCEPT !.active = @ \cup {id},
            !.order = Append(@, id),
            !.threads[id + 1].run_state = "RUNNING"]

KillThread_Clear(s, id) ==
  [s EXCEPT !.active = {},
            !.threads[id + 1].run_state = "DEAD"]

KillThread(s, id) ==
  [s EXCEPT !.active = @ \ {id},
            !.threads[id + 1].run_state = "DEAD"]

SetDead(s, id) == [s EXCEPT !.threads[id + 1].run_state = "DEAD"]

PopPending(s) == [s EXCEPT !.pending = Tail(@)]

\* ---- ActivatePendingThreads ----
\* Each decision of a round is logged: the pending id and its priority, the
\* active thread killed for it (if any) and its priority, and the lowest
\* priority in the active set when the decision was taken.
MinOf(S) == CHOOSE x \in S : \A y \in S : x <= y
MaxOf(S) == CHOOSE x \in S : \A y \in S : x >= y
LowestActive(s) ==
  IF s.active = {} THEN 0 ELSE MinOf({Prio(s, a) : a \in s.active})

Logged(s, kind, pid, aid, before) ==
  [s EXCEPT !.log = Append(@, [kind |-> kind, pend |-> pid,
                               pp |-> Prio(before, pid),
                               victim |-> aid,
                               pv |-> IF aid = NoThread THEN 0
                                      ELSE Prio(before, aid),
                               low |-> LowestActive(before)])]

\* Phase 1 loop condition.
HasRoom_Off(s) ==
  Len(s.pending) > 0 /\ Cardinality(s.active) <= max_active_threads

HasRoom(s) ==
  Len(s.pending) > 0 /\ Cardinality(s.active) < max_active_threads

RECURSIVE FillSpare_Lifo(_)
FillSpare_Lifo(s) ==
  IF HasRoom(s)
    THEN LET thread_id == Last(s.pending)
         IN FillSpare_Lifo(Logged([ActivateThread(s, thread_id)
                                     EXCEPT !.pending = Front(@)],
                                  "fill", thread_id, NoThread, s))
    ELSE s

RECURSIVE FillSpare(_)
FillSpare(s) ==
  IF HasRoom(s)
    THEN LET thread_id == Head(s.pending)
         IN FillSpare(Logged(PopPending(ActivateThread(s, thread_id)),
                             "fill", thread_id, NoThread, s))
    ELSE s

MaxPendingPriority(s) == MaxOf({Prio(s, p) : p \in Range(s.pending)})

\* The heap holds (priority, id) of the active threads below the bound.
ActivePriorities(s) ==
  {<<Prio(s, a), a>> : a \in {x \in s.active :
                                Prio(s, x) < MaxPendingPriority(s)}}

TupleLess(t, u) == t[1] < u[1] \/ (t[1] = u[1] /\ t[2] < u[2])

\* std::greater makes the priority_queue a min-heap.
HeapTop_Max(h) == CHOOSE t \in h : \A u \in h : u = t \/ TupleLess(u, t)

HeapTop(h) == CHOOSE t \in h : \A u \in h : u = t \/ TupleLess(t, u)

\* Does the pending thread replace the active thread on top of the heap?
Outranks_OrEqual(pp, pa) == pp >= pa

Outranks(pp, pa) == pp > pa

RECURSIVE EvictLoop(_, _)
EvictLoop(s, h) ==
  IF h # {} /\ Len(s.pending) > 0
    THEN LET pending_id == Head(s.pending)
             active_id == HeapTop(h)[2]
         IN IF Outranks(Prio(s, pending_id), Prio(s, active_id))
              THEN EvictLoop(
                     Logged(PopPending(ActivateThread(
                              KillThread(s, active_id), pending_id)),
                            "evict", pending_id, active_id, s),
                     h \ {HeapTop(h)})
              ELSE EvictLoop(
                     Logged(SetDead(PopPending(s), pending_id),
                            "reject", pending_id, NoThread, s),
                     h)
    ELSE s

RejectLeftovers_Keep(s) == s

RECURSIVE RejectLeftovers(_)
RejectLeftovers(s) ==
  IF Len(s.pending) > 0
    THEN LET pending_id == Head(s.pending)
         IN RejectLeftovers(Logged(PopPending(SetDead(s, pending_id)),
                                   "leftover", pending_id, NoThread, s))
    ELSE s

ActivatePendingThreads(s) ==
  IF s.pending = <<>> THEN s
  ELSE LET s1 == FillSpare(s)
       IN IF s1.pending = <<>> THEN s1
          ELSE RejectLeftovers(EvictLoop(s1, ActivePriorities(s1)))

\* ---- SpawnThreadWithID ----
\* The module id only reaches InitThread, which the derived hardware owns;
\* it does not affect the host's index and is not a parameter here.
CallSites == {"idle", "handler", "step"}

\* What admission rejected is kept until the first operation after the tick.
RejectedKept == IF pc = "idle" THEN {} ELSE rejected

HasThreadSpace_Off(n) == n <= max_thread_space

HasThreadSpace(n) == n < max_thread_space

\* unused_threads.pop_back()
TakeUnused_Keep(u) == u

TakeUnused(u) == Front(u)

SpawnSlot ==
  IF Len(unused_threads) > 0 THEN Last(unused_threads)
  ELSE IF HasThreadSpace(Len(threads)) THEN Len(threads)
  ELSE None

SpawnThreadWithID(priority) ==
  /\ pc \in CallSites
  /\ calls.total < MaxCalls
  /\ calls' = [calls EXCEPT !.total = @ + 1,
                            !.fresh = IF @ >= 0 /\ SpawnSlot # None
                                        THEN @ + 1 ELSE -1]
  /\ LET thread_id == SpawnSlot
         pool == IF thread_id = Len(threads)
                   THEN Append(threads, NewThread) ELSE threads
     IN IF thread_id = None
          THEN /\ ret' = None
               /\ UNCHANGED <<threads, unused_threads, pending_threads, born>>
          ELSE /\ unused_threads' = IF Len(unused_threads) > 0
                                      THEN TakeUnused(unused_threads)
                                      ELSE unused_threads
               /\ threads' = [pool EXCEPT ![thread_id + 1] =
                                [ThreadReset(@) EXCEPT
                                   !.priority = priority,
                                   !.run_state = "PENDING"]]
               /\ pending_threads' = Append(pending_threads, thread_id)
               /\ born' = [k \in 1..Len(pool) |->
                             IF k = thread_id + 1
                               THEN [ph |-> pc, now |-> pc # "idle"]
                               ELSE born[k]]
               /\ ret' = thread_id
  /\ adm' = <<>>
  /\ rejected' = RejectedKept
  /\ UNCHANGED <<config, visits, event_queue, thread_exec_order, active_threads,
                 cur_thread_id, is_executing, pc, exec_i, exec_n, tick,
                 last_handled>>

\* ---- KillThread, as called by the backend, a handler or the owner ----
Kill(thread_id) ==
  /\ pc \in CallSites
  /\ calls.total < MaxCalls
  /\ thread_id \in Ids
  /\ calls' = [calls EXCEPT !.total = @ + 1, !.fresh = -1]
  /\ ret' = NotCalled
  /\ LET s == KillThread(Host, thread_id)
     IN /\ threads' = s.threads
        /\ active_threads' = s.active
  /\ adm' = <<>>
  /\ rejected' = RejectedKept
  /\ UNCHANGED <<config, visits, event_queue, thread_exec_order, unused_threads,
                 pending_threads, cur_thread_id, is_executing, pc, exec_i,
                 exec_n, tick, born, last_handled>>

\* ---- QueueEvent ----
\* An event is its serial number (BaseEvent::id) with the tick and the
\* phase in which it was queued.
Enqueued_Front(q, e) == <<e>> \o q

Enqueued(q, e) == Append(q, e)

QueueEvent ==
  /\ pc \in CallSites
  /\ calls.total < MaxCalls
  /\ calls' = [calls EXCEPT !.total = @ + 1, !.enqueue = @ + 1,
                            !.fresh = -1]
  /\ event_queue' = Enqueued(event_queue,
                             [id |-> calls.enqueue + 1, t |-> tick, ph |-> pc])
  /\ ret' = NotCalled
  /\ adm' = <<>>
  /\ rejected' = RejectedKept
  /\ UNCHANGED <<config, visits, threads, thread_exec_order, active_threads,
                 unused_threads, pending_threads, cur_thread_id,
                 is_executing, pc, exec_i, exec_n, tick, born, last_handled>>

\* ---- BaseResetState ----
\* emp_assert(!is_executing): the only guard of the call.
ResetAccepted == ~is_executing

\* The owner calls it between ticks.
BaseResetState ==
  /\ pc = "idle"
  /\ ResetAccepted
  /\ calls.total < MaxCalls
  /\ calls' = [calls EXCEPT !.total = @ + 1, !.fresh = 0]
  /\ event_queue' = <<>>
  /\ threads' = [k \in 1..Len(threads) |-> ThreadReset(threads[k])]
  /\ thread_exec_order' = <<>>
  /\ active_threads' = {}
  /\ pending_threads' = <<>>
  /\ unused_threads' = AllUnused(Len(threads))
  /\ cur_thread_id' = NoThread
  /\ is_executing' = FALSE
  /\ ret' = NotCalled
  /\ adm' = <<>>
  /\ rejected' = {}
  /\ born' = [k \in 1..Len(threads) |-> NotBorn]
  /\ UNCHANGED <<config, visits, pc, exec_i, exec_n, tick, last_handled>>

\* ---- SingleProcess ----
TickBegin ==
  /\ pc = "idle"
  /\ tick < MaxTicks
  /\ tick' = tick + 1
  /\ pc' = "drain"
  /\ calls' = [calls EXCEPT !.fresh = -1]
  /\ ret' = NotCalled
  /\ adm' = <<>>
  /\ rejected' = {}
  /\ UNCHANGED <<config, visits, event_queue, threads, thread_exec_order,
                 active_threads, unused_threads, pending_threads,
                 cur_thread_id, is_executing, exec_i, exec_n, born,
                 last_handled>>

\* HandleEvent(event_queue.front()): the handler runs, and may call
\* SpawnThreadWithID, QueueEvent and KillThread before it returns.
DrainNext ==
  /\ pc = "drain"
  /\ event_queue # <<>>
  /\ pc' = "handler"
  /\ ret' = NotCalled
  /\ UNCHANGED <<config, visits, event_queue, threads, thread_exec_order,
                 active_threads, unused_threads, pending_threads,
                 cur_thread_id, is_executing, exec_i, exec_n, tick, calls,
                 adm, rejected, born, last_handled>>

\* event_queue.pop_front() once the handler has returned.
HandlerReturn ==
  /\ pc = "handler"
  /\ last_handled' = Head(event_queue).id
  /\ event_queue' = Tail(event_queue)
  /\ pc' = "drain"
  /\ ret' = NotCalled
  /\ UNCHANGED <<config, visits, threads, thread_exec_order, active_threads,
                 unused_threads, pending_threads, cur_thread_id,
                 is_executing, exec_i, exec_n, tick, calls, adm,
                 rejected, born>>

\* The ids a round marked DEAD without activating them.
RejectedIn(log) ==
  {log[k].pend : k \in {j \in 1..Len(log) :
                          log[j].kind \in {"reject", "leftover"}}}

\* The snapshot N of the execution loop.
ExecSnapshot_Short(order) == Len(order) - 1

ExecSnapshot(order) == Len(order)

\* The event queue is empty: ActivatePendingThreads, then execution begins.
Admit ==
  /\ pc = "drain"
  /\ event_queue = <<>>
  /\ LET s == ActivatePendingThreads(Host)
     IN /\ threads' = s.threads
        /\ active_threads' = s.active
        /\ thread_exec_order' = s.order
        /\ pending_threads' = s.pending
        /\ adm' = s.log
        /\ rejected' = RejectedIn(s.log)
        /\ exec_n' = ExecSnapshot(s.order)
  /\ is_executing' = TRUE
  /\ exec_i' = 0
  /\ visits' = <<>>
  /\ pc' = "exec"
  /\ ret' = NotCalled
  /\ UNCHANGED <<config, event_queue, unused_threads, cur_thread_id, tick,
                 calls, born, last_handled>>

\* One iteration of the execution loop: a thread that is not RUNNING is
\* skipped, a RUNNING one becomes the current thread and is stepped.
ExecVisit_Reverse ==
  /\ pc = "exec"
  /\ exec_i < exec_n
  /\ LET id == thread_exec_order[exec_n - exec_i]
     IN IF threads[id + 1].run_state = "RUNNING"
          THEN /\ cur_thread_id' = id
               /\ pc' = "step"
               /\ visits' = Append(visits, id)
               /\ UNCHANGED exec_i
          ELSE /\ exec_i' = exec_i + 1
               /\ visits' = Append(visits, NoThread)
               /\ UNCHANGED <<cur_thread_id, pc>>
  /\ ret' = NotCalled
  /\ adm' = <<>>
  /\ UNCHANGED <<config, event_queue, threads, thread_exec_order,
                 active_threads, unused_threads, pending_threads,
                 is_executing, exec_n, tick, calls, rejected, born,
                 last_handled>>

ExecVisit ==
  /\ pc = "exec"
  /\ exec_i < exec_n
  /\ LET id == thread_exec_order[exec_i + 1]
     IN IF threads[id + 1].run_state = "RUNNING"
          THEN /\ cur_thread_id' = id
               /\ pc' = "step"
               /\ visits' = Append(visits, id)
               /\ UNCHANGED exec_i
          ELSE /\ exec_i' = exec_i + 1
               /\ visits' = Append(visits, NoThread)
               /\ UNCHANGED <<cur_thread_id, pc>>
  /\ ret' = NotCalled
  /\ adm' = <<>>
  /\ UNCHANGED <<config, event_queue, threads, thread_exec_order,
                 active_threads, unused_threads, pending_threads,
                 is_executing, exec_n, tick, calls, rejected, born, last_handled>>

\* single_step returns (the backend may have called SpawnThreadWithID,
\* KillThread and QueueEvent meanwhile).
StepReturn_Admit ==
  /\ pc = "step"
  /\ LET s == ActivatePendingThreads(Host)
     IN /\ threads' = s.threads
        /\ active_threads' = s.active
        /\ thread_exec_order' = s.order
        /\ pending_threads' = s.pending
        /\ exec_n' = Len(s.order)
  /\ exec_i' = exec_i + 1
  /\ pc' = "exec"
  /\ ret' = NotCalled
  /\ adm' = <<>>
  /\ UNCHANGED <<config, visits, event_queue, unused_threads, cur_thread_id,
                 is_executing, tick, calls, rejected, born, last_handled>>

StepReturn ==
  /\ pc = "step"
  /\ exec_i' = exec_i + 1
  /\ pc' = "exec"
  /\ ret' = NotCalled
  /\ adm' = <<>>
  /\ UNCHANGED <<config, visits, event_queue, threads, thread_exec_order,
                 active_threads, unused_threads, pending_threads,
                 cur_thread_id, is_executing, exec_n, tick, calls, rejected,
                 born, last_handled>>

\* single_step throws: SingleProcess has no try block and no scope guard,
\* so the exception leaves it at the call and nothing after the call runs.
StepError ==
  /\ pc = "step"
  /\ pc' = "idle"
  /\ exec_i' = 0
  /\ exec_n' = 0
  /\ ret' = NotCalled
  /\ adm' = <<>>
  /\ visits' = <<>>
  /\ born' = [k \in 1..Len(born) |-> [born[k] EXCEPT !.now = FALSE]]
  /\ UNCHANGED <<config, event_queue, threads, thread_exec_order,
                 active_threads, unused_threads, pending_threads,
                 cur_thread_id, is_executing, tick, calls, rejected,
                 last_handled>>

\* End of the tick: DEAD ids leave the execution order for the unused stack.
IsDead_Never(id) == FALSE

IsDead(id) == threads[id + 1].run_state = "DEAD"

Reap ==
  /\ pc = "exec"
  /\ exec_i >= exec_n
  /\ thread_exec_order' = SelectSeq(thread_exec_order, LAMBDA x : ~IsDead(x))
  /\ unused_threads' = unused_threads \o SelectSeq(thread_exec_order, IsDead)
  /\ cur_thread_id' = NoThread
  /\ is_executing' = FALSE
  /\ exec_i' = 0
  /\ exec_n' = 0
  /\ pc' = "idle"
  /\ ret' = NotCalled
  /\ adm' = <<>>
  /\ visits' = <<>>
  /\ born' = [k \in 1..Len(born) |-> [born[k] EXCEPT !.now = FALSE]]
  /\ UNCHANGED <<config, event_queue, threads, active_threads,
                 pending_threads, tick, calls, rejected, last_handled>>

Next ==
  \/ \E priority \in Priorities : SpawnThreadWithID(priority)
  \/ \E thread_id \in Ids : Kill(thread_id)
  \/ QueueEvent
  \/ BaseResetState
  \/ TickBegin
  \/ DrainNext
  \/ HandlerReturn
  \/ Admit
  \/ ExecVisit
  \/ StepReturn
  \/ StepError
  \/ Reap

Spec == Init /\ [][Next]_vars

\* ---- type correctness ----
TypeOK ==
  /\ pc \in {"idle", "drain", "handler", "exec", "step"}
  /\ \A k \in 1..Len(threads) :
       /\ threads[k].priority \in Priorities
       /\ threads[k].run_state \in {"RUNNING", "DEAD", "PENDING"}
  /\ active_threads \subseteq Ids
  /\ Range(pending_threads) \subseteq Ids
  /\ Range(unused_threads) \subseteq Ids
  /\ Range(thread_exec_order) \subseteq Ids

\* ======================= claims =======================
\* The state in which ActivatePendingThreads has just returned.
PostAdmit == pc = "exec" /\ exec_i = 0

RunState(i) == threads[i + 1].run_state

\* C1: in every reachable state the active set holds at most
\* max_active_threads ids, whatever the pending queue and the priorities.
C1_ActiveWithinLimit == Cardinality(active_threads) <= max_active_threads

\* C1 witness: admission has just returned from a round in which it killed
\* an active thread for a pending one, and the active set is full.
C1_Witness ==
  /\ PostAdmit
  /\ Cardinality(active_threads) = max_active_threads
  /\ \E k \in 1..Len(adm) : adm[k].kind = "evict"

\* C2 (as claimed): once a public operation has returned, a thread is
\* RUNNING iff its id is in the active set, PENDING iff its id is in the
\* pending queue, and a DEAD thread's id is in the unused stack or in the
\* execution order.
C2_StateMatchesIndex ==
  pc = "idle" =>
    \A i \in Ids :
      /\ RunState(i) = "RUNNING" <=> i \in active_threads
      /\ RunState(i) = "PENDING" <=> i \in Range(pending_threads)
      /\ RunState(i) = "DEAD" =>
           i \in Range(unused_threads) \cup Range(thread_exec_order)

\* C3: the active set, the ids of the pending queue and the ids of the
\* unused stack are pairwise disjoint, and neither the pending queue nor
\* the unused stack holds an id twice.
C3_IndexDisjoint ==
  /\ active_threads \cap Range(pending_threads) = {}
  /\ active_threads \cap Range(unused_threads) = {}
  /\ Range(pending_threads) \cap Range(unused_threads) = {}
  /\ NoDup(pending_threads)
  /\ NoDup(unused_threads)

\* C3 witness: all three views are non-empty at once, after a tick has
\* returned ids to the unused stack.
C3_Witness ==
  /\ tick > 0
  /\ active_threads # {}
  /\ pending_threads # <<>>
  /\ unused_threads # <<>>
  /\ \E i \in Range(unused_threads) : born[i + 1].ph # "none"

\* C4 (as claimed): when the tick has returned, every id that its admission
\* round rejected is on the unused stack.
C4_RejectedAreReaped ==
  pc = "idle" => \A i \in rejected : i \in Range(unused_threads)

\* C5 (as claimed): a thread being stepped was not spawned during this
\* tick, neither by an event handler nor by the backend.
C5_SpawnedRunsNextTick ==
  (pc = "step" /\ born[cur_thread_id + 1].ph \in {"handler", "step"})
    => ~born[cur_thread_id + 1].now

\* C5 (amended): a thread being stepped was not spawned by the backend
\* during this tick's execution loop.
C5_BackendSpawnRunsNextTick ==
  (pc = "step" /\ born[cur_thread_id + 1].ph = "step")
    => ~born[cur_thread_id + 1].now

\* C5 witness: a thread spawned by the backend in the execution loop of an
\* earlier tick is being stepped.
C5_Witness ==
  /\ pc = "step"
  /\ born[cur_thread_id + 1].ph = "step"
  /\ ~born[cur_thread_id + 1].now

\* Events leave the queue in the order of their serials.
Fifo ==
  /\ \A a, b \in 1..Len(event_queue) :
       a < b => event_queue[a].id < event_queue[b].id
  /\ event_queue # <<>> => Head(event_queue).id > last_handled

C7_TiesFavourIncumbent ==
  \A k \in 1..Len(adm) :
    LET e == adm[k]
    IN /\ e.kind = "evict" => e.pp > e.pv
       /\ (e.kind # "fill" /\ e.pp <= e.low) =>
            /\ e.victim = NoThread
            /\ PostAdmit => /\ RunState(e.pend) = "DEAD"
                            /\ e.pend \notin active_threads

\* C7 witness: with the active set full, admission has just rejected a
\* pending thread whose priority equals the lowest active priority, against
\* a non-empty heap.
C7_Witness ==
  /\ PostAdmit
  /\ Cardinality(active_threads) = max_active_threads
  /\ \E k \in 1..Len(adm) : adm[k].kind = "reject" /\ adm[k].pp = adm[k].low

AdmitStep == pc = "drain" /\ pc' = "exec"

\* C8: an admission round that starts with |active| + |pending| <=
\* max_active_threads makes every pending thread RUNNING and active, keeps
\* every active thread as it was, and appends the pending ids to the
\* execution order in arrival order.
C8_FastPath ==
  [][(AdmitStep /\ Cardinality(active_threads) + Len(pending_threads)
                     <= max_active_threads)
       => /\ \A p \in Range(pending_threads) :
               /\ threads'[p + 1].run_state = "RUNNING"
               /\ p \in active_threads'
          /\ \A a \in active_threads :
               /\ a \in active_threads'
               /\ threads'[a + 1] = threads[a + 1]
          /\ pending_threads' = <<>>
          /\ thread_exec_order' = thread_exec_order \o pending_threads]_vars

\* C8 witness: admission has just activated two pending threads, the one
\* of lower priority first, and decided nothing else.
C8_Witness ==
  /\ PostAdmit
  /\ Len(adm) = 2
  /\ adm[1].kind = "fill" /\ adm[2].kind = "fill"
  /\ adm[1].pp < adm[2].pp

NoPendingAboveActive ==
  \A p \in Range(pending_threads) : \A a \in active_threads :
    threads[p + 1].priority <= threads[a + 1].priority

\* C9 (as claimed): an admission round that starts with no pending thread
\* of higher priority than any active thread kills no thread (stated for
\* the rounds that start with at least one active thread).
C9_NoKill ==
  [][(AdmitStep /\ active_threads # {} /\ NoPendingAboveActive)
       => \A k \in 1..Len(adm') : adm'[k].kind # "evict"]_vars

\* C9 (amended): an admission round that starts with no pending thread of
\* higher priority than any active thread kills none of the threads that
\* were active when it started.
C9_NoKillOfActive ==
  [][(AdmitStep /\ NoPendingAboveActive)
       => /\ \A k \in 1..Len(adm') : adm'[k].victim \notin active_threads
          /\ \A a \in active_threads :
               /\ a \in active_threads'
               /\ threads'[a + 1].run_state = "RUNNING"]_vars

\* C9 witness: admission has just returned from a round that activated a
\* pending thread in its first phase and killed it for a later pending
\* thread, while the thread that was active before the round, of priority
\* no lower than any pending one, is still running.
C9_Witness ==
  /\ PostAdmit
  /\ \E j, k \in 1..Len(adm) :
       /\ j < k
       /\ adm[j].kind = "fill"
       /\ adm[k].kind = "evict"
       /\ adm[k].victim = adm[j].pend
  /\ \E a \in active_threads :
       /\ \A k \in 1..Len(adm) : adm[k].pend # a /\ adm[k].pp <= threads[a + 1].priority
       /\ RunState(a) = "RUNNING"

\* C10: SpawnThreadWithID returns nullopt exactly when the unused stack is
\* empty and the pool has max_thread_space threads, and then the pool, the
\* active set, the pending queue, the unused stack and the execution order
\* are as before the call.
C10_NoneIffExhausted ==
  [][ret' # NotCalled
       => /\ ret' = None <=> (/\ unused_threads = <<>>
                              /\ Len(threads) = max_thread_space)
          /\ ret' = None => UNCHANGED <<threads, active_threads,
                                        pending_threads, unused_threads,
                                        thread_exec_order>>]_vars

\* C10 witness: a spawn has just returned nullopt.
C10_Witness == ret = None

\* C11: the pool starts with min(2 * max_active_threads, max_thread_space)
\* threads; its length never decreases and never exceeds max_thread_space,
\* and it grows, by exactly one, only in a SpawnThreadWithID call that finds
\* the unused stack empty and returns an id.
C11_PoolGrowOnly ==
  /\ Len(threads) <= 2 * max_active_threads
  /\ Len(threads) <= max_thread_space
  /\ Len(threads) = 2 * max_active_threads \/ Len(threads) = max_thread_space
  /\ [](Len(threads) <= max_thread_space)
  /\ [][/\ Len(threads') \in {Len(threads), Len(threads) + 1}
        /\ Len(threads') = Len(threads) + 1
             => /\ unused_threads = <<>>
                /\ ret' = Len(threads)]_vars

\* C11 witness: a spawn has just grown the pool beyond its initial length,
\* up to max_thread_space.
C11_Witness ==
  /\ ret = Len(threads) - 1
  /\ Len(threads) = max_thread_space
  /\ Len(threads) > 2 * max_active_threads

\* C12: a SpawnThreadWithID(priority) call that returns an id returns the
\* top of the unused stack if the stack was not empty, else the new last
\* pool index; after it that thread is PENDING with the given priority, its
\* id is the last element of the pending queue and is not in the unused
\* stack, and the active set and the execution order are as before.
C12_SpawnResult ==
  [][/\ ret' \notin {NotCalled, None}
          => /\ ret' = IF unused_threads # <<>>
                         THEN unused_threads[Len(unused_threads)]
                         ELSE Len(threads)
             /\ threads'[ret' + 1].run_state = "PENDING"
             /\ pending_threads' # <<>>
             /\ pending_threads'[Len(pending_threads')] = ret'
             /\ ret' \notin Range(unused_threads')
             /\ active_threads' = active_threads
             /\ thread_exec_order' = thread_exec_order
     /\ \A priority \in Priorities :
          (SpawnThreadWithID(priority) /\ ret' # None)
            => threads'[ret' + 1].priority = priority]_vars

\* C12 witness: a spawn has just returned the top of an unused stack that
\* held more than one id, while another thread is active and in the
\* execution order.
C12_Witness ==
  /\ ret \notin {None, NotCalled}
  /\ unused_threads # <<>>
  /\ active_threads # {}
  /\ thread_exec_order # <<>>
  /\ RunState(ret) = "PENDING"

\* C13: when BaseResetState has returned, the event queue, the active set,
\* the pending queue and the execution order are empty, every thread is
\* DEAD with priority 1, is_executing and cur_thread_id are cleared and the
\* unused stack holds every pool id once, in reverse index order; the
\* successful spawns that follow it return 0, 1, 2, ... in that order.
C13_ResetIsFresh ==
  /\ (calls.fresh = 0 /\ calls.total > 0) =>
       /\ event_queue = <<>>
       /\ active_threads = {}
       /\ pending_threads = <<>>
       /\ thread_exec_order = <<>>
       /\ \A i \in Ids : RunState(i) = "DEAD" /\ threads[i + 1].priority = 1
       /\ ~is_executing
       /\ cur_thread_id = NoThread
       /\ Len(unused_threads) = Len(threads)
       /\ \A k \in 1..Len(unused_threads) :
            unused_threads[k] = Len(threads) - k
  /\ calls.fresh > 0 => ret = calls.fresh - 1

\* C13 witness: after a tick and one earlier call, BaseResetState was
\* called and two spawns followed it; the second has just returned 1.
C13_Witness ==
  /\ tick > 0
  /\ calls.fresh = 2
  /\ calls.total = MaxCalls
  /\ ret = 1

\* The ids this tick's execution loop has passed to single_step, in order.
Steps(v) == SelectSeq(v, LAMBDA x : x # NoThread)

Skips(v) == Cardinality({k \in 1..Len(v) : v[k] = NoThread})

Executing == pc \in {"exec", "step"}

LoopDone == pc = "exec" /\ exec_i >= exec_n

\* C14: in a tick the execution loop visits each entry of the execution
\* order as it stands when execution begins at most once, in order, and
\* steps exactly the entries whose thread is RUNNING when visited; when the
\* loop ends the number of single_step calls is the length of that order
\* minus the entries skipped, and no thread spawned during the loop has
\* been stepped.
C14_FrozenExecution ==
  /\ [](Executing =>
          /\ Len(visits) <= Len(thread_exec_order)
          /\ \A k \in 1..Len(visits) :
               /\ visits[k] \in {NoThread, thread_exec_order[k]}
               /\ visits[k] # NoThread =>
                    ~(born[visits[k] + 1].ph = "step"
                      /\ born[visits[k] + 1].now)
          /\ LoopDone =>
               Len(Steps(visits)) = Len(thread_exec_order) - Skips(visits))
  /\ [][Executing =>
          /\ pc' # "idle" => thread_exec_order' = thread_exec_order
          /\ Len(visits') = Len(visits) + 1 =>
               (visits'[Len(visits')] # NoThread
                  <=> RunState(thread_exec_order[Len(visits')]) = "RUNNING")
       ]_vars

\* C14 witness: the loop has ended after stepping one entry and skipping
\* another, and a thread spawned meanwhile is waiting in the pending queue.
C14_Witness ==
  /\ LoopDone
  /\ Len(Steps(visits)) > 0
  /\ Skips(visits) > 0
  /\ \E p \in Range(pending_threads) : born[p + 1].ph = "step"

\* C15 (as claimed): at every point of a tick at which an event handler or
\* the backend can call into the host, the guard of BaseResetState rejects
\* the call; between ticks is_executing is false and cur_thread_id is the
\* 'none' value.
C15_ReentrantCallRejected ==
  /\ pc \in {"handler", "step"} => ~ResetAccepted
  /\ pc = "idle" => ~is_executing /\ cur_thread_id = NoThread

\* A step in which KillThread was called on the host.
KillStep ==
  /\ calls'.total = calls.total + 1
  /\ calls'.enqueue = calls.enqueue
  /\ calls'.fresh = -1
  /\ ret' = NotCalled

\* C16: KillThread(id) on any id of the pool leaves that thread DEAD and out
\* of the active set, and leaves the execution order, the unused stack, the
\* pending queue, the pool length and every other thread as they were;
\* called on a thread that is already DEAD it changes nothing.
C16_KillFrame ==
  [][/\ KillStep
          => /\ thread_exec_order' = thread_exec_order
             /\ unused_threads' = unused_threads
             /\ pending_threads' = pending_threads
             /\ Len(threads') = Len(threads)
     /\ \A id \in Ids :
          Kill(id)
            => /\ threads'[id + 1].run_state = "DEAD"
               /\ id \notin active_threads'
               /\ \A j \in Ids \ {id} :
                    /\ threads'[j + 1] = threads[j + 1]
                    /\ j \in active_threads' <=> j \in active_threads
               /\ RunState(id) = "DEAD"
                    => /\ threads' = threads
                       /\ active_threads' = active_threads]_vars

\* C16 witness: the thread being stepped has been killed during its step:
\* it is DEAD, out of the active set and still in the execution order, and
\* another thread is still active.
C16_Witness ==
  /\ pc = "step"
  /\ RunState(cur_thread_id) = "DEAD"
  /\ cur_thread_id \notin active_threads
  /\ cur_thread_id \in Range(thread_exec_order)
  /\ active_threads # {}

\* C17 (as claimed): every change of a thread's run state is DEAD to
\* PENDING, PENDING to RUNNING, PENDING to DEAD or RUNNING to DEAD; in
\* particular no thread that is DEAD or RUNNING is activated.
C17_LegalTransitions ==
  [][\A i \in Ids :
       RunState(i) # threads'[i + 1].run_state
         => <<RunState(i), threads'[i + 1].run_state>> \in
              {<<"DEAD", "PENDING">>, <<"PENDING", "RUNNING">>,
               <<"PENDING", "DEAD">>, <<"RUNNING", "DEAD">>}]_vars

\* C18 (as claimed): when an error raised by single_step has escaped
\* SingleProcess, is_executing is cleared, so that BaseResetState is
\* accepted, each thread's run state matches its membership in the active
\* set and the pending queue, the active set is within its limit and the
\* index views are pairwise disjoint.
C18_ErrorLeavesHostUsable ==
  [][(pc = "step" /\ pc' = "idle")
       => /\ ~is_executing'
          /\ ResetAccepted'
          /\ \A i \in Ids :
               /\ threads'[i + 1].run_state = "RUNNING"
                    <=> i \in active_threads'
               /\ threads'[i + 1].run_state = "PENDING"
                    <=> i \in Range(pending_threads')
          /\ C1_ActiveWithinLimit'
          /\ C3_IndexDisjoint']_vars

\* The decisions of a round's second and third phase, by position in the log.
Later(log) == {k \in 1..Len(log) : log[k].kind # "fill"}

\* P*: the highest priority among the pending threads left after Phase 1.
PStar(log) == MaxOf({log[k].pp : k \in Later(log)})

\* The threads active when Phase 2 begins: those active before the round
\* and those Phase 1 activated.
ActiveAtPhase2(log) ==
  active_threads \cup
    {log[k].pend : k \in {j \in 1..Len(log) : log[j].kind = "fill"}}

\* The eviction candidates when decision k is taken: the threads active
\* when Phase 2 began, of priority below P*, that have not been evicted.
Candidates(log, k) ==
  {a \in ActiveAtPhase2(log) : threads[a + 1].priority < PStar(log)}
    \ {log[j].victim : j \in {i \in 1..(k - 1) : log[i].kind = "evict"}}

AdmittedIn(log, id) ==
  \E m \in 1..Len(log) : log[m].pend = id /\ log[m].kind \in {"fill", "evict"}

EvictedIn(log, id) == \E m \in 1..Len(log) : log[m].victim = id

\* C20: for two threads of equal priority in the pending queue of an
\* admission round, if the one that arrived later is RUNNING when the round
\* returns then the earlier one is RUNNING too or was activated and then
\* evicted by the round; the later one is not activated if the earlier one
\* was not.
C20_FifoAmongEquals ==
  [][AdmitStep
       => \A j, k \in 1..Len(pending_threads) :
            LET early == pending_threads[j]
                late == pending_threads[k]
            IN (j < k /\ threads[early + 1].priority
                           = threads[late + 1].priority)
                 => /\ threads'[late + 1].run_state = "RUNNING"
                         => \/ threads'[early + 1].run_state = "RUNNING"
                            \/ /\ AdmittedIn(adm', early)
                               /\ EvictedIn(adm', early)
                    /\ AdmittedIn(adm', late) => AdmittedIn(adm', early)
    ]_vars

\* C20 witness: of two pending threads of equal priority, admission has
\* just activated the earlier one in place of an active thread and has
\* rejected the later one.
C20_Witness ==
  /\ PostAdmit
  /\ \E j, k \in 1..Len(adm) :
       /\ j < k
       /\ adm[j].kind = "evict"
       /\ adm[k].kind \in {"reject", "leftover"}
       /\ adm[j].pp = adm[k].pp
       /\ RunState(adm[j].pend) = "RUNNING"
       /\ RunState(adm[k].pend) = "DEAD"

\* Is a the sequence b with some of its entries left out?
IsSubseq(a, b) ==
  \E f \in [1..Len(a) -> 1..Len(b)] :
    /\ \A i, j \in 1..Len(a) : i < j => f[i] < f[j]
    /\ \A i \in 1..Len(a) : b[f[i]] = a[i]

\* The ids a round activated, in the order of activation.
ActivatedBy(log) ==
  LET act == SelectSeq(log, LAMBDA e : e.kind \in {"fill", "evict"})
  IN [k \in 1..Len(act) |-> act[k].pend]

\* C21: the ids passed to single_step in a tick are, in that order, a
\* subsequence of the execution order as admission left it; admission
\* leaves the threads it activated after all the ids that were in the
\* execution order before, in the order in which it activated them.
C21_StepOrder ==
  /\ [](Executing => IsSubseq(Steps(visits), thread_exec_order))
  /\ [][/\ AdmitStep
             => thread_exec_order'
                  = thread_exec_order \o ActivatedBy(adm')
        /\ (Executing /\ pc' # "idle")
             => thread_exec_order' = thread_exec_order]_vars

\* C21 witness: the loop of the second tick has ended after stepping
\* thread 1, which was in the execution order before the tick, and then
\* thread 0, which this tick's admission activated.
C21_Witness ==
  /\ LoopDone
  /\ tick = 2
  /\ Steps(visits) = <<1, 0>>
  /\ thread_exec_order = <<1, 0>>

\* C22: ActivatePendingThreads returns after one decision per id of the
\* pending queue, and leaves the queue empty: every thread that was PENDING
\* is RUNNING, in the active set and in the execution order, or DEAD, and
\* no thread is PENDING.
C22_AdmissionDrains ==
  [][AdmitStep
       => /\ Len(adm') = Len(pending_threads)
          /\ pending_threads' = <<>>
          /\ \A p \in Range(pending_threads) :
               RunState(p) = "PENDING"
                 => \/ /\ threads'[p + 1].run_state = "RUNNING"
                       /\ p \in active_threads'
                       /\ p \in Range(thread_exec_order')
                    \/ threads'[p + 1].run_state = "DEAD"
          /\ \A i \in Ids : threads'[i + 1].run_state # "PENDING"]_vars

\* C22 witness: admission has just returned from a round that activated
\* one pending thread and marked another DEAD.
C22_Witness ==
  /\ PostAdmit
  /\ pending_threads = <<>>
  /\ \E j, k \in 1..Len(adm) :
       /\ adm[j].kind \in {"fill", "evict"}
       /\ RunState(adm[j].pend) = "RUNNING"
       /\ adm[k].kind \in {"reject", "leftover"}
       /\ RunState(adm[k].pend) = "DEAD"

\* The step in which SingleProcess returns, after reaping.
ReapStep == pc = "exec" /\ pc' = "idle"

\* C23: in every reachable state the execution order holds no id twice and
\* holds every id of the active set; when SingleProcess returns, the ids of
\* the execution order are exactly the active set, all of them RUNNING.
C23_ExecOrderCoversActive ==
  /\ [](/\ NoDup(thread_exec_order)
        /\ active_threads \subseteq Range(thread_exec_order))
  /\ [][ReapStep
          => /\ Range(thread_exec_order') = active_threads'
             /\ \A i \in Range(thread_exec_order') :
                  threads'[i + 1].run_state = "RUNNING"]_vars

\* C23 witness: every tick so far has returned; an id that was spawned has
\* been reaped to the unused stack, and the execution order still holds
\* the active thread.
C23_Witness ==
  /\ pc = "idle"
  /\ tick > 0
  /\ ~is_executing
  /\ thread_exec_order # <<>>
  /\ Range(thread_exec_order) = active_threads
  /\ \E i \in Range(unused_threads) : born[i + 1].ph # "none"

====
